---- MODULE Spec2Model ----
(***************************************************************************)
(* A model of the CRM backend (crm/schema.py, crm/cron.py, crm/settings.py,*)
(* seeder_db.py): the four tables, the GraphQL mutations as handlers, the  *)
(* atomic blocks of BulkCreateCustomers and CreateOrder, and the seeder.   *)
(*                                                                         *)
(* Strings the code builds with f-strings are sequences of fragments, so   *)
(* "Record 2: name is required" is <<"Record ", "2", ": ", "name",         *)
(* " is required">>.  A phone number is a sequence of characters.  Decimal *)
(* amounts are integers in minor units.  Requests are handled one at a     *)
(* time: pc is the position of the handler that is running.                *)
(***************************************************************************)
EXTENDS Integers, Sequences, FiniteSets, TLC

VARIABLES
    customers,   \* committed Customer rows
    products,    \* committed Product rows
    orders,      \* committed Order rows (products: the many-to-many set)
    orderItems,  \* committed OrderItem rows
    nextId,      \* the tables' id sequences
    pc,          \* position of the running handler, "idle" between requests
    call,        \* the request being handled: its operation and input
    locals,      \* the running handler's local variables
    tx,          \* the open atomic block: rows written but not committed
    response,    \* what the last finished request returned to its caller
    files,       \* the jobs' log files (append-only) and the running job's console
    sessions     \* customer-creation calls served concurrently, one per session

vars == <<customers, products, orders, orderItems, nextId, pc, call, locals, tx, response,
          files, sessions>>

\* An optional value (a nullable field, a reference that may be None) is a
\* sequence of at most one element: None is the empty one.
None == <<>>

Some(v) == <<v>>

\* ------------------------------------------------------------------ bounds

\* Longest input list of a BulkCreateCustomers call.
MaxInputs == 2

\* Products CreateProduct may add before the id sequence is capped.
MaxProducts == 1

\* Orders CreateOrder may save before the id sequence is capped.
MaxOrders == 1

\* Longest product-id list of a CreateOrder call.
MaxOrderProducts == 2

\* Customer ids handed out before storage stops failing in a bulk call (a
\* rolled-back row uses up its id).
MaxCustomerIds == 2

\* Lines a log file holds before the jobs stop being run.
MaxLogLines == 4

\* ------------------------------------------------------------ input values

\* "+1\n": a valid phone followed by a line feed.
PlusOneNewline == <<"+", "1", "\n">>

Digits15 == <<"1","2","3","4","5","6","7","8","9","0","1","2","3","4","5">>

PhoneStrings ==
    { <<>>,
      <<"+", "1">>,
      <<"+">>,
      <<"+">> \o Digits15,
      <<"+">> \o Digits15 \o <<"6">>,
      <<"1","2","3","-","4","5","6","-","7","8","9","0">>,
      <<"1","2","3","-","4","5","6","-","7","8","9">>,
      PlusOneNewline }

Emails == {"a@x.org", "b@x.org"}

\* CustomerInput: name and email are required (non-null) strings, phone is optional.
CustomerInputs ==
    [name : {"Ann"}, email : Emails, phone : {None} \cup {Some(p) : p \in PhoneStrings}]

\* BulkCustomerInput has the same fields.  Two valid records, one record for each
\* check of the loop body, and one that fails all three of its first checks.
BulkCustomerInputs ==
    { [name |-> "Ann", email |-> "a@x.org", phone |-> None],
      [name |-> "Ann", email |-> "b@x.org", phone |-> None],
      [name |-> "",    email |-> "a@x.org", phone |-> None],
      [name |-> "Ann", email |-> "",        phone |-> None],
      [name |-> "Ann", email |-> "a@x.org", phone |-> Some(<<"+">>)],
      [name |-> "",    email |-> "",        phone |-> Some(<<"+">>)] }

SeqsUpTo(S, n) == UNION {[1..k -> S] : k \in 0..n}

\* ------------------------------------------------------------- validation

IsDigit(c) == c \in {"0","1","2","3","4","5","6","7","8","9"}

\* Python's "$": the end of the string, or just before a line feed that ends it.
AtDollar(s, pos) ==
    \/ pos = Len(s) + 1
    \/ pos = Len(s) /\ s[pos] = "\n"

\* ^\+\d{1,15}$ from position 1: some k in 1..15 digits, then "$".
MatchPlusDigits(s) ==
    /\ Len(s) >= 1
    /\ s[1] = "+"
    /\ \E k \in 1..15 :
          /\ k + 1 <= Len(s)
          /\ \A i \in 2..(k + 1) : IsDigit(s[i])
          /\ AtDollar(s, k + 2)

\* ^\d{3}-\d{3}-\d{4}$ from position 1.
MatchDashed(s) ==
    /\ Len(s) >= 12
    /\ \A i \in {1, 2, 3, 5, 6, 7, 9, 10, 11, 12} : IsDigit(s[i])
    /\ s[4] = "-"
    /\ s[8] = "-"
    /\ AtDollar(s, 13)

\* Python's truth value of an optional string: None and "" are falsy.
Truthy(phone) == phone # None /\ phone[1] # <<>>

\* "if not phone: return True", else whether the pattern matches.
validate_phone_number(phone) ==
    IF ~Truthy(phone) THEN TRUE
    ELSE MatchPlusDigits(phone[1]) \/ MatchDashed(phone[1])

\* Rows a query sees: the committed ones and those the open atomic block wrote.
VisibleCustomers == customers \cup tx.customers

\* The lookup filtering on the wrong column.
validate_email_unique_wrong_column(email) ==
    ~ \E c \in VisibleCustomers : c.name = email

validate_email_unique(email) ==
    ~ \E c \in VisibleCustomers : c.email = email

\* str() of an optional string, as an f-string formats it.
Str(value) == IF value = None THEN <<"None">> ELSE value[1]

get_user_friendly_error(field, value, error_type) ==
    CASE error_type = "email_exists" ->
            <<"Email '", value, "' already exists">>
      [] error_type = "invalid_phone" ->
            <<"Phone number '">> \o Str(value)
               \o <<"' must be in format: +1234567890 or 123-456-7890">>
      [] error_type = "invalid_price" -> <<"Price must be a positive number">>
      [] error_type = "invalid_stock" -> <<"Stock cannot be negative">>
      [] error_type = "customer_not_found" ->
            <<"Customer with ID '", value, "' not found">>
      [] error_type = "product_not_found" ->
            <<"Product with ID '", value, "' not found">>
      [] error_type = "no_products" -> <<"At least one product is required">>
      [] error_type = "required_field" -> <<field, " is required">>
      [] OTHER -> <<"Validation error for ", field>>

\* Model.full_clean(): what it returns is the ValidationError's message_dict as a
\* sequence of <<field, message>> pairs, empty when the object is valid.  The
\* models are not part of the sources, so either outcome is possible.
full_clean(fields) ==
    {<<>>} \cup {<<(<<f, "invalid">>)>> : f \in fields}

\* f"{field}: {error}" for every field and error of a message_dict.
FieldErrors(message_dict) ==
    [i \in 1..Len(message_dict) |-> <<message_dict[i][1], ": ", message_dict[i][2]>>]

CustomerFields == {"email"}

NoTx == [customers |-> {}, orders |-> {}, orderItems |-> {}, needs_rollback |-> FALSE]

NoCall == [op |-> "none"]

NoLocals == [index |-> 0]

NoResponse == [type |-> "none"]

\* The sessions that serve requests at the same time.
Sessions == {1, 2}

\* A session that has not been given its call.
NoSession ==
    [op |-> "none", pc |-> "idle", inputs |-> <<>>, index |-> 0,
     created_customers |-> <<>>, errors |-> <<>>,
     rows |-> {}, needs_rollback |-> FALSE, response |-> NoResponse]

\* /tmp/crm_heartbeat_log.txt and /tmp/order_reminders_log.txt before any run.
NoFiles == [heartbeat |-> <<>>, reminders |-> <<>>, console |-> <<>>]

CustomerRow(id, input) ==
    [id |-> id, name |-> input.name, email |-> input.email, phone |-> input.phone]

\* ------------------------------------------------------------------- state

Init ==
    /\ customers = {}
    /\ products = {}
    /\ orders = {}
    /\ orderItems = {}
    /\ nextId = [customer |-> 1, product |-> 1, order |-> 1, item |-> 1]
    /\ pc = "idle"
    /\ call = NoCall
    /\ locals = NoLocals
    /\ tx = NoTx
    /\ response = NoResponse
    /\ files = NoFiles
    /\ sessions = [s \in Sessions |-> NoSession]

\* --------------------------------------------------------- CreateCustomer

CreateCustomerErrors(input) ==
    (IF Truthy(input.phone) /\ ~validate_phone_number(input.phone)
     THEN <<get_user_friendly_error("phone", input.phone, "invalid_phone")>>
     ELSE <<>>)
    \o
    (IF ~validate_email_unique(input.email)
     THEN <<get_user_friendly_error("email", input.email, "email_exists")>>
     ELSE <<>>)

CreateCustomer(input) ==
    /\ pc = "idle"
    /\ call' = [op |-> "CreateCustomer", input |-> input]
    /\ LET errors == CreateCustomerErrors(input) IN
       IF errors # <<>>
       THEN /\ response' = [type |-> "CustomerResponse", success |-> FALSE,
                            customer |-> None,
                            message |-> <<"Customer creation failed">>,
                            errors |-> Some(errors)]
            /\ UNCHANGED <<customers, nextId>>
       ELSE \E message_dict \in full_clean(CustomerFields) :
               IF message_dict = <<>>
               THEN LET customer == CustomerRow(nextId.customer, input) IN
                    /\ customers' = customers \cup {customer}
                    /\ nextId' = [nextId EXCEPT !.customer = @ + 1]
                    /\ response' = [type |-> "CustomerResponse", success |-> TRUE,
                                    customer |-> Some(customer),
                                    message |-> <<"Customer created successfully">>,
                                    errors |-> None]
               ELSE /\ response' = [type |-> "CustomerResponse", success |-> FALSE,
                                    customer |-> None,
                                    message |-> <<"Validation failed">>,
                                    errors |-> Some(FieldErrors(message_dict))]
                    /\ UNCHANGED <<customers, nextId>>
    /\ UNCHANGED <<products, orders, orderItems, pc, locals, tx, files, sessions>>

\* ---------------------------------------------------- BulkCreateCustomers

\* sep.join(parts) of fragment sequences.
RECURSIVE Join(_, _)
Join(sep, parts) ==
    IF parts = <<>> THEN <<>>
    ELSE IF Len(parts) = 1 THEN parts[1]
    ELSE parts[1] \o sep \o Join(sep, Tail(parts))

\* The prefix numbering the records from 0.
RecordPrefixZeroBased(index) == <<"Record ", ToString(index), ": ">>

\* f"Record {index + 1}: " with the loop's 0-based index.
RecordPrefix(index) == <<"Record ", ToString(index + 1), ": ">>

\* The decorator opens the atomic block, then the locals are initialised.
BulkCreateCustomersBegin(inputs) ==
    /\ pc = "idle"
    /\ pc' = "bulk_loop"
    /\ call' = [op |-> "BulkCreateCustomers", input |-> inputs]
    /\ locals' = [index |-> 0, created_customers |-> <<>>, errors |-> <<>>]
    /\ tx' = NoTx
    /\ response' = NoResponse
    /\ UNCHANGED <<customers, products, orders, orderItems, nextId, files, sessions>>

\* The error string of a record that fails a check of the loop body, None when it
\* passes them all (the checks run in this order and the first failing one reports).
BulkRecordError(index, input_data) ==
    IF input_data.name = ""
    THEN Some(RecordPrefix(index) \o get_user_friendly_error("name", "", "required_field"))
    ELSE IF input_data.email = ""
    THEN Some(RecordPrefix(index) \o get_user_friendly_error("email", "", "required_field"))
    ELSE IF Truthy(input_data.phone) /\ ~validate_phone_number(input_data.phone)
    THEN Some(RecordPrefix(index)
              \o get_user_friendly_error("phone", input_data.phone, "invalid_phone"))
    ELSE IF ~validate_email_unique(input_data.email)
    THEN Some(RecordPrefix(index)
              \o get_user_friendly_error("email", input_data.email, "email_exists"))
    ELSE None

\* The record gets past the checks that need no storage, to the email lookup.
ReachesStorage(input_data) ==
    /\ input_data.name # ""
    /\ input_data.email # ""
    /\ ~(Truthy(input_data.phone) /\ ~validate_phone_number(input_data.phone))

\* One iteration of "for index, input_data in enumerate(inputs)".  Inside a
\* transaction marked for rollback no query runs (see the storage errors below).
BulkCreateCustomersRecord ==
    /\ pc = "bulk_loop"
    /\ locals.index < Len(call.input)
    /\ ~(tx.needs_rollback /\ ReachesStorage(call.input[locals.index + 1]))
    /\ LET index == locals.index
           input_data == call.input[index + 1]
           error == BulkRecordError(index, input_data)
       IN
       IF error # None
       THEN /\ locals' = [locals EXCEPT !.index = index + 1,
                                        !.errors = Append(@, error[1])]
            /\ UNCHANGED <<tx, nextId>>
       ELSE \E message_dict \in full_clean(CustomerFields) :
               IF message_dict = <<>>
               THEN LET customer == CustomerRow(nextId.customer, input_data) IN
                    /\ tx' = [tx EXCEPT !.customers = @ \cup {customer}]
                    /\ nextId' = [nextId EXCEPT !.customer = @ + 1]
                    /\ locals' = [locals EXCEPT
                                    !.index = index + 1,
                                    !.created_customers = Append(@, customer)]
               ELSE /\ locals' = [locals EXCEPT
                                    !.index = index + 1,
                                    !.errors = Append(@, RecordPrefix(index)
                                         \o Join(<<", ">>, FieldErrors(message_dict)))]
                    /\ UNCHANGED <<tx, nextId>>
    /\ UNCHANGED <<customers, products, orders, orderItems, pc, call, response, files, sessions>>

\* The outcome with success tied to the absence of errors.
BulkOutcomeAllOrNothing(created_customers, errors) ==
    IF created_customers # <<>> /\ errors # <<>>
    THEN [message |-> <<"Successfully created ", ToString(Len(created_customers)),
                        " customers, ", ToString(Len(errors)), " failed">>,
          success |-> FALSE]
    ELSE IF created_customers # <<>>
    THEN [message |-> <<"Successfully created ", ToString(Len(created_customers)),
                        " customers">>,
          success |-> TRUE]
    ELSE [message |-> <<"No customers were created">>, success |-> FALSE]

\* The message and success flag of the three outcomes.
BulkOutcome(created_customers, errors) ==
    IF created_customers # <<>> /\ errors # <<>>
    THEN [message |-> <<"Successfully created ", ToString(Len(created_customers)),
                        " customers, ", ToString(Len(errors)), " failed">>,
          success |-> TRUE]
    ELSE IF created_customers # <<>>
    THEN [message |-> <<"Successfully created ", ToString(Len(created_customers)),
                        " customers">>,
          success |-> TRUE]
    ELSE [message |-> <<"No customers were created">>, success |-> FALSE]

\* An atomic block that commits whenever no exception leaves it.
AtomicCommitsUnlessRaised(t, raised) == ~raised

\* transaction.atomic on leaving the block: commit unless an exception left it
\* or a failed write (Model.save, the related manager's set) marked the
\* transaction for rollback.
AtomicCommits(t, raised) == ~raised /\ ~t.needs_rollback

\* The loop is over: build the response and leave the atomic block.
BulkCreateCustomersReturn ==
    /\ pc = "bulk_loop"
    /\ locals.index = Len(call.input)
    /\ LET outcome == BulkOutcome(locals.created_customers, locals.errors) IN
       response' = [type |-> "BulkCustomerResponse",
                    success |-> outcome.success,
                    customers |-> locals.created_customers,
                    errors |-> IF locals.errors # <<>> THEN Some(locals.errors) ELSE None,
                    message |-> outcome.message]
    /\ customers' = IF AtomicCommits(tx, FALSE) THEN customers \cup tx.customers ELSE customers
    /\ tx' = NoTx
    /\ pc' = "idle"
    /\ locals' = NoLocals
    /\ UNCHANGED <<products, orders, orderItems, nextId, call, files, sessions>>

\* ---------------------------------------------------------- CreateProduct

\* ProductInput: name and price are required, stock is a nullable Int whose
\* default 0 replaces an absent value (an explicit null stays None).
ProductInputs ==
    [name : {"Widget"}, price : {-1, 0, 5},
     stock : {None, Some(-1), Some(0)}]

ProductFields == {"price"}

\* The price check with "<" for "<=".
InvalidPriceStrict(price) == price < 0

\* input.price <= Decimal('0')
InvalidPrice(price) == price <= 0

\* The errors list once both checks have run (the stock is an integer here).
CreateProductErrors(input) ==
    (IF InvalidPrice(input.price)
     THEN <<get_user_friendly_error("price", input.price, "invalid_price")>>
     ELSE <<>>)
    \o
    (IF input.stock[1] < 0
     THEN <<get_user_friendly_error("stock", input.stock, "invalid_stock")>>
     ELSE <<>>)

ProductRow(id, input) ==
    [id |-> id, name |-> input.name, price |-> input.price, stock |-> input.stock[1]]

CreateProduct(input) ==
    /\ pc = "idle"
    /\ nextId.product <= MaxProducts
    /\ call' = [op |-> "CreateProduct", input |-> input]
    /\ IF input.stock = None
       THEN \* "input.stock < 0" compares None with an int: TypeError, raised
            \* before the try block, leaves the mutation
            /\ response' = [type |-> "exception", exception |-> "TypeError"]
            /\ UNCHANGED <<products, nextId>>
       ELSE LET errors == CreateProductErrors(input) IN
            IF errors # <<>>
            THEN /\ response' = [type |-> "ProductResponse", success |-> FALSE,
                                 product |-> None,
                                 message |-> <<"Product creation failed">>,
                                 errors |-> Some(errors)]
                 /\ UNCHANGED <<products, nextId>>
            ELSE \E message_dict \in full_clean(ProductFields) :
                    IF message_dict = <<>>
                    THEN LET product == ProductRow(nextId.product, input) IN
                         /\ products' = products \cup {product}
                         /\ nextId' = [nextId EXCEPT !.product = @ + 1]
                         /\ response' = [type |-> "ProductResponse", success |-> TRUE,
                                         product |-> Some(product),
                                         message |-> <<"Product created successfully">>,
                                         errors |-> None]
                    ELSE /\ response' = [type |-> "ProductResponse", success |-> FALSE,
                                         product |-> None,
                                         message |-> <<"Validation failed">>,
                                         errors |-> Some(FieldErrors(message_dict))]
                         /\ UNCHANGED <<products, nextId>>
    /\ UNCHANGED <<customers, orders, orderItems, pc, locals, tx, files, sessions>>

\* ------------------------------------------------------------ CreateOrder

\* graphene.ID values: the ids a client may send.
CustomerIdInputs == {"1", "2"}

\* The last of them is of no Product until the seeder has run.
ProductIdInputs == {ToString(i) : i \in 1..(MaxProducts + 1)}

\* OrderInput: customer_id and product_ids are required, order_date is optional
\* (sent here with the orders of one product).
OrderInputs ==
    {input \in [customer_id : CustomerIdInputs,
                product_ids : SeqsUpTo(ProductIdInputs, MaxOrderProducts),
                order_date : {None, Some("2024-01-01")}] :
        input.order_date # None => Len(input.product_ids) = 1}

OrderFields == {"total_amount"}

\* Model.objects.get(id=...): the rows with that id (none: DoesNotExist).
GetById(rows, id) == {r \in rows : ToString(r.id) = id}

RECURSIVE SumPrices(_)
SumPrices(rows) ==
    IF rows = <<>> THEN 0 ELSE rows[1].price + SumPrices(Tail(rows))

\* The loop over input.product_ids from position i: the products resolved so far,
\* up to and without the first id that does not exist.
RECURSIVE ResolveProducts(_, _)
ResolveProducts(product_ids, i) ==
    IF i > Len(product_ids) \/ GetById(products, product_ids[i]) = {}
    THEN <<>>
    ELSE <<CHOOSE p \in GetById(products, product_ids[i]) : TRUE>>
         \o ResolveProducts(product_ids, i + 1)

\* An empty list passing the check.
NoProductsNever(product_ids) == FALSE

\* "if not input.product_ids"
NoProducts(product_ids) == product_ids = <<>>

OrderFailure(message, errors) ==
    [type |-> "OrderResponse", success |-> FALSE, order |-> None,
     message |-> message, errors |-> Some(errors)]

\* The loop going on to the next id after one that does not resolve.
ResolutionStopsNever(product_ids, resolved) == FALSE

\* Whether the resolution loop returned at an unresolved id.
ResolutionStops(product_ids, resolved) == Len(resolved) < Len(product_ids)

\* The handler up to order.full_clean(): the checks, the lookups and the
\* construction of the Order, none of which writes.
CreateOrderBegin(input) ==
    /\ pc = "idle"
    /\ nextId.order <= MaxOrders
    /\ call' = [op |-> "CreateOrder", input |-> input]
    /\ tx' = NoTx
    /\ IF NoProducts(input.product_ids)
       THEN /\ response' = OrderFailure(<<"Order creation failed">>,
                              <<get_user_friendly_error("products", "", "no_products")>>)
            /\ UNCHANGED <<pc, locals>>
       ELSE IF GetById(customers, input.customer_id) = {}
       THEN /\ response' = OrderFailure(<<"Order creation failed">>,
                              <<get_user_friendly_error("customer", input.customer_id,
                                                        "customer_not_found")>>)
            /\ UNCHANGED <<pc, locals>>
       ELSE LET customer == CHOOSE c \in GetById(customers, input.customer_id) : TRUE
                resolved == ResolveProducts(input.product_ids, 1)
            IN
            IF ResolutionStops(input.product_ids, resolved)
            THEN /\ response' = OrderFailure(<<"Order creation failed">>,
                                   <<get_user_friendly_error("product",
                                        input.product_ids[Len(resolved) + 1],
                                        "product_not_found")>>)
                 /\ UNCHANGED <<pc, locals>>
            ELSE \E message_dict \in full_clean(OrderFields) :
                    IF message_dict = <<>>
                    THEN /\ pc' = "order_save"
                         /\ locals' = [index |-> 0,
                                       customer |-> customer,
                                       products |-> resolved,
                                       total_amount |-> SumPrices(resolved),
                                       order |-> None]
                         /\ response' = NoResponse
                    ELSE /\ response' = OrderFailure(<<"Validation failed">>,
                                                     FieldErrors(message_dict))
                         /\ UNCHANGED <<pc, locals>>
    /\ UNCHANGED <<customers, products, orders, orderItems, nextId, files, sessions>>

\* order_date is the input's when it is given, else the model's default.
OrderRow(id, customer, total_amount, order_date) ==
    [id |-> id, customer |-> customer.id, total_amount |-> total_amount,
     order_date |-> IF order_date # None THEN order_date[1] ELSE "now",
     products |-> {}]

\* order.save()
CreateOrderSaveOrder ==
    /\ pc = "order_save"
    /\ LET order == OrderRow(nextId.order, locals.customer, locals.total_amount,
                             call.input.order_date)
       IN
       /\ tx' = [tx EXCEPT !.orders = @ \cup {order}]
       /\ locals' = [locals EXCEPT !.order = Some(order)]
    /\ nextId' = [nextId EXCEPT !.order = @ + 1]
    /\ pc' = "order_items"
    /\ UNCHANGED <<customers, products, orders, orderItems, call, response, files, sessions>>

\* An OrderItem priced at the order's total.
OrderItemRowTotalPrice(id, order, product) ==
    [id |-> id, order |-> order.id, product |-> product.id, quantity |-> 1,
     price |-> order.total_amount]

\* OrderItem(order=order, product=product, quantity=1, price=product.price)
OrderItemRow(id, order, product) ==
    [id |-> id, order |-> order.id, product |-> product.id, quantity |-> 1,
     price |-> product.price]

\* One iteration of "for product in products": order_item.save()
CreateOrderSaveItem ==
    /\ pc = "order_items"
    /\ locals.index < Len(locals.products)
    /\ LET order_item == OrderItemRow(nextId.item, locals.order[1],
                                      locals.products[locals.index + 1])
       IN tx' = [tx EXCEPT !.orderItems = @ \cup {order_item}]
    /\ nextId' = [nextId EXCEPT !.item = @ + 1]
    /\ locals' = [locals EXCEPT !.index = @ + 1]
    /\ UNCHANGED <<customers, products, orders, orderItems, pc, call, response, files, sessions>>

\* order.products.set(products)
CreateOrderSetProducts ==
    /\ pc = "order_items"
    /\ locals.index = Len(locals.products)
    /\ LET order == [locals.order[1] EXCEPT
                        !.products = {locals.products[i].id : i \in 1..Len(locals.products)}]
       IN
       /\ tx' = [tx EXCEPT !.orders = (@ \ {locals.order[1]}) \cup {order}]
       /\ locals' = [locals EXCEPT !.order = Some(order)]
    /\ pc' = "order_return"
    /\ UNCHANGED <<customers, products, orders, orderItems, nextId, call, response, files, sessions>>

\* The success response, and the atomic block left without an exception.
CreateOrderReturn ==
    /\ pc = "order_return"
    /\ response' = [type |-> "OrderResponse", success |-> TRUE,
                    order |-> locals.order,
                    message |-> <<"Order created successfully">>,
                    errors |-> None]
    /\ orders' = IF AtomicCommits(tx, FALSE) THEN orders \cup tx.orders ELSE orders
    /\ orderItems' = IF AtomicCommits(tx, FALSE)
                     THEN orderItems \cup tx.orderItems ELSE orderItems
    /\ tx' = NoTx
    /\ pc' = "idle"
    /\ locals' = NoLocals
    /\ UNCHANGED <<customers, products, nextId, call, files, sessions>>

\* The write that is next (order.save(), an order_item.save(), or
\* order.products.set) raises a storage error.  Django marks the transaction of
\* the enclosing atomic block for rollback as the exception passes through the
\* write; "except Exception" then returns the failure response, so no exception
\* leaves the atomic block.
CreateOrderStorageError ==
    /\ pc \in {"order_save", "order_items"}
    /\ LET failed == [tx EXCEPT !.needs_rollback = TRUE] IN
       /\ orders' = IF AtomicCommits(failed, FALSE) THEN orders \cup tx.orders ELSE orders
       /\ orderItems' = IF AtomicCommits(failed, FALSE)
                        THEN orderItems \cup tx.orderItems ELSE orderItems
    /\ response' = OrderFailure(<<"Failed to create order">>, <<<<"storage error">>>>)
    /\ tx' = NoTx
    /\ pc' = "idle"
    /\ locals' = NoLocals
    /\ UNCHANGED <<customers, products, nextId, call, files, sessions>>

\* ------------------------------------------------------------ seeder_db.py

\* The fixture's rows, with the ids the tables' sequences give them.
SeedCustomers(id) ==
    { [id |-> id,     name |-> "John Doe",    email |-> "john@example.com",
       phone |-> Some(<<"+","1","2","3","4","5","6","7","8","9","0">>)],
      [id |-> id + 1, name |-> "Jane Smith",  email |-> "jane@example.com",
       phone |-> Some(<<"1","2","3","-","4","5","6","-","7","8","9","0">>)],
      [id |-> id + 2, name |-> "Bob Johnson", email |-> "bob@example.com",
       phone |-> Some(<<"+","4","4","7","9","1","2","3","4","5","6","7","8">>)] }

\* Prices in cents.
SeedProducts(id) ==
    { [id |-> id,     name |-> "Laptop",   price |-> 99999, stock |-> 10],
      [id |-> id + 1, name |-> "Mouse",    price |-> 2999,  stock |-> 50],
      [id |-> id + 2, name |-> "Keyboard", price |-> 7999,  stock |-> 30],
      [id |-> id + 3, name |-> "Monitor",  price |-> 29999, stock |-> 15] }

\* Order 1: John's Laptop and Mouse.  Order 2: Jane's Keyboard.
SeedOrders(id, customer, product) ==
    { [id |-> id, customer |-> customer, total_amount |-> 99999 + 2999,
       order_date |-> "now", products |-> {product, product + 1}],
      [id |-> id + 1, customer |-> customer + 1, total_amount |-> 7999,
       order_date |-> "now", products |-> {product + 2}] }

SeedOrderItems(id, order, product) ==
    { [id |-> id,     order |-> order,     product |-> product,
       quantity |-> 1, price |-> 99999],
      [id |-> id + 1, order |-> order,     product |-> product + 1,
       quantity |-> 1, price |-> 2999],
      [id |-> id + 2, order |-> order + 1, product |-> product + 2,
       quantity |-> 1, price |-> 7999] }

\* seed_database(): clear the four tables, then save the fixture.  It is run
\* while the id sequences are within the range the mutations use.
seed_database ==
    /\ pc = "idle"
    /\ nextId.customer <= 2
    /\ nextId.product <= MaxProducts + 1
    /\ nextId.order <= MaxOrders + 1
    /\ customers' = SeedCustomers(nextId.customer)
    /\ products' = SeedProducts(nextId.product)
    /\ orders' = SeedOrders(nextId.order, nextId.customer, nextId.product)
    /\ orderItems' = SeedOrderItems(nextId.item, nextId.order, nextId.product)
    /\ nextId' = [customer |-> nextId.customer + 3, product |-> nextId.product + 4,
                  order |-> nextId.order + 2, item |-> nextId.item + 3]
    /\ call' = [op |-> "seed_database"]
    /\ response' = NoResponse
    /\ UNCHANGED <<pc, locals, tx, files, sessions>>

\* ------------------------------------------------------------- price edits

\* Prices a Product row is later given.
EditedPrices == {7}

\* A Product's price is edited in storage (outside the mutations of the schema).
EditProductPrice(id, price) ==
    /\ pc = "idle"
    /\ \E p \in products :
          /\ p.id = id
          /\ p.price # price
          /\ products' = (products \ {p}) \cup {[p EXCEPT !.price = price]}
    /\ call' = [op |-> "EditProductPrice"]
    /\ response' = NoResponse
    /\ UNCHANGED <<customers, orders, orderItems, nextId, pc, locals, tx, files, sessions>>

\* ---------------------------------------------------- the low-stock update

\* The fields of the schema's Mutation class.
MutationFields ==
    {"create_customer", "bulk_create_customers", "create_product", "create_order"}

\* The functions crm/cron.py defines.
CronFunctions == {"log_crm_heartbeat", "log_crm_heartbeat_simple"}

\* CRONJOBS: the schedule, and the function of crm.cron it runs.
CRONJOBS ==
    { [schedule |-> "*/5 * * * *", function |-> "log_crm_heartbeat"],
      [schedule |-> "0 */12 * * *", function |-> "update_low_stock"] }

\* A request for the mutation updateLowStockProducts: the schema has no such
\* field, so the request is refused and no resolver runs.
UpdateLowStockProducts ==
    /\ pc = "idle"
    /\ "update_low_stock_products" \notin MutationFields
    /\ call' = [op |-> "UpdateLowStockProducts"]
    /\ response' = [type |-> "GraphQLError",
                    message |-> <<"Cannot query field 'updateLowStockProducts'">>]
    /\ UNCHANGED <<customers, products, orders, orderItems, nextId, pc, locals, tx, files, sessions>>

\* The 12-hourly job of CRONJOBS: crm.cron has no attribute update_low_stock,
\* so the job ends with an AttributeError before any request is made.
update_low_stock ==
    /\ pc = "idle"
    /\ \E job \in CRONJOBS :
          /\ job.function = "update_low_stock"
          /\ job.function \notin CronFunctions
    /\ call' = [op |-> "update_low_stock"]
    /\ response' = [type |-> "exception", exception |-> "AttributeError"]
    /\ UNCHANGED <<customers, products, orders, orderItems, nextId, pc, locals, tx, files, sessions>>

\* --------------------------------------------------------- storage errors

\* str(e) of a database error.
StorageErrorText == <<"storage error">>

\* An exception that leaves mutate: graphene answers with a top-level error and
\* no response envelope.
Escapes(exception) == [type |-> "exception", exception |-> exception]

\* CreateCustomer when storage fails: the email lookup of validate_email_unique
\* runs before the try block, so its error leaves mutate; an error of
\* full_clean's queries or of save() is caught by "except Exception".
CreateCustomerStorageError(input) ==
    /\ pc = "idle"
    /\ call' = [op |-> "CreateCustomer", input |-> input]
    /\ \/ response' = Escapes("OperationalError")
       \/ /\ CreateCustomerErrors(input) = <<>>
          /\ response' = [type |-> "CustomerResponse", success |-> FALSE,
                          customer |-> None,
                          message |-> <<"Failed to create customer">>,
                          errors |-> Some(<<StorageErrorText>>)]
    /\ UNCHANGED <<customers, products, orders, orderItems, nextId, pc, locals, tx, files, sessions>>

\* CreateProduct when save() fails: caught by "except Exception".
CreateProductStorageError(input) ==
    /\ pc = "idle"
    /\ nextId.product <= MaxProducts
    /\ input.stock # None
    /\ CreateProductErrors(input) = <<>>
    /\ call' = [op |-> "CreateProduct", input |-> input]
    /\ response' = [type |-> "ProductResponse", success |-> FALSE,
                    product |-> None,
                    message |-> <<"Failed to create product">>,
                    errors |-> Some(<<StorageErrorText>>)]
    /\ UNCHANGED <<customers, products, orders, orderItems, nextId, pc, locals, tx, files, sessions>>

\* One iteration of the bulk loop when storage fails at the email lookup or at
\* save(): "except Exception" appends the record's error and the loop goes on.
\* A failed save() marks the transaction for rollback; whether a failed lookup
\* leaves it usable depends on the database.  In a marked transaction every
\* query fails.
BulkCreateCustomersRecordStorageError ==
    /\ pc = "bulk_loop"
    /\ tx.needs_rollback \/ nextId.customer <= MaxCustomerIds
    /\ locals.index < Len(call.input)
    /\ ReachesStorage(call.input[locals.index + 1])
    /\ \E marked \in BOOLEAN :
          tx' = [tx EXCEPT !.needs_rollback = @ \/ marked]
    /\ locals' = [locals EXCEPT
                    !.index = @ + 1,
                    !.errors = Append(@, RecordPrefix(locals.index) \o StorageErrorText)]
    /\ UNCHANGED <<customers, products, orders, orderItems, nextId, pc, call, response, files, sessions>>

\* CreateOrder when the lookup of the customer or of a product fails: inside the
\* try block, before any write.
CreateOrderLookupError(input) ==
    /\ pc = "idle"
    /\ nextId.order <= MaxOrders
    /\ ~NoProducts(input.product_ids)
    /\ call' = [op |-> "CreateOrder", input |-> input]
    /\ response' = OrderFailure(<<"Failed to create order">>, <<StorageErrorText>>)
    /\ UNCHANGED <<customers, products, orders, orderItems, nextId, pc, locals, tx, files, sessions>>

Next ==
    \/ \E input \in CustomerInputs : CreateCustomer(input)
    \/ \E inputs \in SeqsUpTo(BulkCustomerInputs, MaxInputs) : BulkCreateCustomersBegin(inputs)
    \/ BulkCreateCustomersRecord
    \/ BulkCreateCustomersReturn

Spec == Init /\ [][Next]_vars

\* The products and orders, with one customer input, the seeder, price edits and
\* storage errors in CreateOrder's writes.
NextOrders ==
    \/ CreateCustomer([name |-> "Ann", email |-> "a@x.org", phone |-> None])
    \/ \E input \in ProductInputs : CreateProduct(input)
    \/ \E input \in OrderInputs : CreateOrderBegin(input)
    \/ CreateOrderSaveOrder
    \/ CreateOrderSaveItem
    \/ CreateOrderSetProducts
    \/ CreateOrderReturn
    \/ CreateOrderStorageError
    \/ \E p \in products, price \in EditedPrices : EditProductPrice(p.id, price)
    \/ UpdateLowStockProducts
    \/ update_low_stock
    \/ seed_database

SpecOrders == Init /\ [][NextOrders]_vars

\* The inputs of the runs with storage errors.
FaultCustomerInputs == {c \in CustomerInputs : c.phone \in {None, Some(<<"+">>)}}

FaultBulkInputs == {b \in BulkCustomerInputs : b.phone = None /\ b.email # ""}

FaultOrderInputs == {o \in OrderInputs : o.order_date = None /\ o.customer_id = "1"}

\* The four mutations, storage failing at any of their steps.
NextFaults ==
    \/ \E input \in FaultCustomerInputs : CreateCustomer(input)
    \/ \E input \in FaultCustomerInputs : CreateCustomerStorageError(input)
    \/ \E inputs \in SeqsUpTo(FaultBulkInputs, MaxInputs) : BulkCreateCustomersBegin(inputs)
    \/ BulkCreateCustomersRecord
    \/ BulkCreateCustomersRecordStorageError
    \/ BulkCreateCustomersReturn
    \/ \E input \in ProductInputs : CreateProduct(input)
    \/ \E input \in ProductInputs : CreateProductStorageError(input)
    \/ \E input \in FaultOrderInputs : CreateOrderBegin(input)
    \/ \E input \in FaultOrderInputs : CreateOrderLookupError(input)
    \/ CreateOrderSaveOrder
    \/ CreateOrderSaveItem
    \/ CreateOrderSetProducts
    \/ CreateOrderReturn
    \/ CreateOrderStorageError

SpecFaults == Init /\ [][NextFaults]_vars

\* ------------------------------------------------------------ crm/cron.py

\* datetime.now().strftime(...): the time of the run, as text.
Timestamp == "<timestamp>"

\* What client.execute(query) does: returns the result, or raises.
QueryOutcomes == {"ok", "ConnectionError", "Timeout", "Exception"}

\* f"{timestamp} CRM is alive"
AliveLine(timestamp) == <<timestamp, " CRM is alive">>

\* The result line that always reports the endpoint as verified.
HeartbeatResultLineAlwaysVerified(timestamp, outcome) ==
    <<timestamp, " GraphQL endpoint verified: ", "{'hello': 'Hello, GraphQL!'}">>

\* The line written after the query: its result, or str() of what it raised.
HeartbeatResultLine(timestamp, outcome) ==
    IF outcome = "ok"
    THEN <<timestamp, " GraphQL endpoint verified: ", "{'hello': 'Hello, GraphQL!'}">>
    ELSE <<timestamp, " GraphQL check failed: ", outcome>>

\* A job has returned to cron.
Returned(job) == [type |-> "returned", job |-> job]

\* The job starts (a new process, with an empty console) and takes the time.
log_crm_heartbeat ==
    /\ pc = "idle"
    /\ Len(files.heartbeat) + 2 <= MaxLogLines
    /\ pc' = "heartbeat_alive"
    /\ call' = [op |-> "log_crm_heartbeat"]
    /\ locals' = [index |-> 0, timestamp |-> Timestamp, outcome |-> None]
    /\ response' = NoResponse
    /\ files' = [files EXCEPT !.console = <<>>]
    /\ UNCHANGED <<customers, products, orders, orderItems, nextId, tx, sessions>>

\* Lines 16-17: append the alive line; when the file cannot be written the outer
\* handler prints and the job is over.
HeartbeatWriteAlive(writable) ==
    /\ pc = "heartbeat_alive"
    /\ IF writable
       THEN /\ files' = [files EXCEPT !.heartbeat = Append(@, AliveLine(locals.timestamp))]
            /\ pc' = "heartbeat_query"
            /\ UNCHANGED response
       ELSE /\ files' = [files EXCEPT
                           !.console = Append(@, <<"Error in heartbeat cron job: ", "OSError">>)]
            /\ pc' = "idle"
            /\ response' = Returned("log_crm_heartbeat")
    /\ UNCHANGED <<customers, products, orders, orderItems, nextId, call, locals, tx, sessions>>

\* Lines 20-40: the liveness query is sent.
HeartbeatQuery(outcome) ==
    /\ pc = "heartbeat_query"
    /\ locals' = [locals EXCEPT !.outcome = Some(outcome)]
    /\ pc' = "heartbeat_result"
    /\ UNCHANGED <<customers, products, orders, orderItems, nextId, call, tx, response, files, sessions>>

\* Lines 43-53: append the result line.  A failed write of the verified line is
\* caught by the inner handler, which writes a check-failed line; a failed write
\* in the inner handler is caught by the outer one, which prints.
HeartbeatWriteResult(writable, handler_writable) ==
    /\ pc = "heartbeat_result"
    /\ LET outcome == locals.outcome[1] IN
       IF writable
       THEN files' = [files EXCEPT
                        !.heartbeat = Append(@, HeartbeatResultLine(locals.timestamp, outcome))]
       ELSE IF outcome = "ok" /\ handler_writable
       THEN files' = [files EXCEPT
                        !.heartbeat = Append(@, HeartbeatResultLine(locals.timestamp, "OSError"))]
       ELSE files' = [files EXCEPT
                        !.console = Append(@, <<"Error in heartbeat cron job: ", "OSError">>)]
    /\ pc' = "idle"
    /\ locals' = NoLocals
    /\ response' = Returned("log_crm_heartbeat")
    /\ UNCHANGED <<customers, products, orders, orderItems, nextId, call, tx, sessions>>

\* ------------------------------------ crm/cron_jobs/send_order_reminders.py

GRAPHQL_ENDPOINT == "http://localhost:8000/graphql"

\* What requests.post does: a response (status 200 with one order, with no
\* order or with GraphQL errors; another status), or an exception.
RequestOutcomes ==
    {"200 orders", "200 empty", "200 errors", "500", "ConnectionError", "Timeout", "Exception"}

RequestExceptions == {"ConnectionError", "Timeout", "Exception"}

LogLine(timestamp, text) == <<"[", timestamp, "] ">> \o text

\* The writes of the try block, in order: each open(..., 'a') with the lines
\* written through it.
BodyWrites(timestamp, outcome) ==
    CASE outcome = "200 orders" ->
           << <<LogLine(timestamp, <<"GraphQL Response: ", "data">>)>>,
              <<LogLine(timestamp, <<"Processing ", "1", " pending orders">>),
                LogLine(timestamp, <<"Order ID: ", "1", ", Customer Email: ", "a@x.org",
                                     ", Order Date: ", "2024-01-01">>)>> >>
      [] outcome = "200 empty" ->
           << <<LogLine(timestamp, <<"GraphQL Response: ", "data">>)>>,
              <<LogLine(timestamp, <<"Processing ", "0", " pending orders">>)>> >>
      [] outcome = "200 errors" ->
           << <<LogLine(timestamp, <<"GraphQL Response: ", "data">>)>>,
              <<LogLine(timestamp, <<"GraphQL Errors: ", "errors">>)>> >>
      [] outcome = "500" ->
           << <<LogLine(timestamp, <<"HTTP Error: ", "500", " - ", "text">>)>> >>
      [] OTHER -> <<>>

\* What the try block prints when nothing was raised.
BodyPrint(outcome) ==
    CASE outcome = "200 errors" -> <<"GraphQL query errors occurred. Check log for details.">>
      [] outcome = "500" -> <<"HTTP Error: ", "500">>
      [] OTHER -> <<"Order reminders processed!">>

\* The line each except clause writes.
HandlerLine(timestamp, exception) ==
    CASE exception = "ConnectionError" ->
           LogLine(timestamp, <<"Error: Could not connect to GraphQL endpoint at ",
                                GRAPHQL_ENDPOINT>>)
      [] exception = "Timeout" -> LogLine(timestamp, <<"Error: Request timeout">>)
      [] OTHER -> LogLine(timestamp, <<"Unexpected error: ", exception>>)

\* What each except clause prints after its write.
HandlerPrint(exception) ==
    CASE exception = "ConnectionError" ->
           <<"Connection error: Could not reach GraphQL endpoint">>
      [] exception = "Timeout" -> <<"Request timeout">>
      [] OTHER -> <<"Unexpected error: ", exception>>

RECURSIVE Flatten(_)
Flatten(seqs) == IF seqs = <<>> THEN <<>> ELSE Head(seqs) \o Flatten(Tail(seqs))

\* Lines 42-61: the job starts, takes the time and posts the query.
send_order_reminders(outcome) ==
    /\ pc = "idle"
    /\ Len(files.reminders) + 3 <= MaxLogLines
    /\ pc' = "reminders_log"
    /\ call' = [op |-> "send_order_reminders"]
    /\ locals' = [index |-> 0, timestamp |-> Timestamp, outcome |-> Some(outcome)]
    /\ response' = NoResponse
    /\ files' = [files EXCEPT !.console = <<>>]
    /\ UNCHANGED <<customers, products, orders, orderItems, nextId, tx, sessions>>

\* Lines 63-117: the first `written` writes of the try block succeed.  A write
\* that fails raises OSError, handled like any exception of the block by the
\* last except clause; the except clauses write to the same file, and what that
\* write raises leaves the function.
RemindersLog(written, handler_writable) ==
    /\ pc = "reminders_log"
    /\ LET outcome == locals.outcome[1]
           body == BodyWrites(locals.timestamp, outcome)
           raised == IF outcome \in RequestExceptions THEN Some(outcome)
                     ELSE IF written < Len(body) THEN Some("OSError")
                     ELSE None
       IN
       /\ written <= Len(body)
       /\ files' = [files EXCEPT
            !.reminders =
                @ \o Flatten(SubSeq(body, 1, written))
                  \o (IF raised # None /\ handler_writable
                      THEN <<HandlerLine(locals.timestamp, raised[1])>> ELSE <<>>),
            !.console =
                IF raised = None THEN Append(@, BodyPrint(outcome))
                ELSE IF handler_writable THEN Append(@, HandlerPrint(raised[1]))
                ELSE @]
       /\ response' = IF raised # None /\ ~handler_writable
                      THEN Escapes("OSError")
                      ELSE Returned("send_order_reminders")
    /\ pc' = "idle"
    /\ locals' = NoLocals
    /\ UNCHANGED <<customers, products, orders, orderItems, nextId, call, tx, sessions>>

\* The two jobs, run one at a time.
NextJobs ==
    \/ log_crm_heartbeat
    \/ \E writable \in BOOLEAN : HeartbeatWriteAlive(writable)
    \/ \E outcome \in QueryOutcomes : HeartbeatQuery(outcome)
    \/ \E writable, handler_writable \in BOOLEAN :
          HeartbeatWriteResult(writable, handler_writable)
    \/ \E outcome \in RequestOutcomes : send_order_reminders(outcome)
    \/ \E written \in 0..2, handler_writable \in BOOLEAN :
          RemindersLog(written, handler_writable)

SpecJobs == Init /\ [][NextJobs]_vars

\* ------------------------------------------------------- concurrent calls

\* The inputs of the concurrent calls: well-formed, differing in the email.
RaceInputs == [name : {"Ann"}, email : Emails, phone : {None}]

\* The rows the queries of session s see: the committed ones and the ones its
\* own transaction has written.
SessionSees(s) == customers \cup sessions[s].rows

\* validate_email_unique(email), run by session s.
SessionEmailUnique(s, email) == \A c \in SessionSees(s) : c.email # email

\* Another session has inserted a row with this email and not yet committed it.
UncommittedElsewhere(s, email) ==
    \E t \in Sessions \ {s} : \E c \in sessions[t].rows : c.email = email

\* The unique index on Customer.email refuses the insert of a committed email.
UniqueViolation(email) == \E c \in customers : c.email = email

\* The ValidationError of full_clean for an email that exists.
EmailExistsDict == <<(<<"email", "Customer with this Email already exists.">>)>>

\* The rest of the session's state once its call has answered.
Answered(me, resp) ==
    [me EXCEPT !.pc = "done", !.response = resp, !.rows = {}, !.needs_rollback = FALSE]

\* The bulk loop moves to its next record with one more error.
RecordFailed(me, text) ==
    [me EXCEPT !.pc = "check", !.index = @ + 1,
               !.errors = Append(@, RecordPrefix(me.index) \o text)]

\* A failed save answered as a creation.
CustomerSaveFailedAsCreated(id, input) ==
    [type |-> "CustomerResponse", success |-> TRUE,
     customer |-> Some(CustomerRow(id, input)),
     message |-> <<"Customer created successfully">>, errors |-> None]

\* CreateCustomer's "except Exception": the answer to a failed save.
CustomerSaveFailed(id, input) ==
    [type |-> "CustomerResponse", success |-> FALSE, customer |-> None,
     message |-> <<"Failed to create customer">>, errors |-> Some(<<StorageErrorText>>)]

\* Session s is given a call: CreateCustomer(inputs[1]) or BulkCreateCustomers(inputs).
RaceBegin(s, op, inputs) ==
    /\ sessions[s].op = "none"
    /\ op = "CreateCustomer" => Len(inputs) = 1
    /\ sessions' = [sessions EXCEPT
                      ![s] = [NoSession EXCEPT !.op = op, !.pc = "check", !.inputs = inputs]]
    /\ UNCHANGED <<customers, products, orders, orderItems, nextId, pc, call, locals, tx,
                   response, files>>

\* The checks before the row is built (CreateCustomer 173-185, the bulk loop
\* 237-251).  In a transaction marked for rollback the lookup raises.
RaceCheck(s) ==
    LET me == sessions[s]
        input == me.inputs[me.index + 1]
        bad_phone == Truthy(input.phone) /\ ~validate_phone_number(input.phone)
        phone_error == get_user_friendly_error("phone", input.phone, "invalid_phone")
        email_error == get_user_friendly_error("email", input.email, "email_exists")
    IN
    /\ me.pc = "check"
    /\ me.index < Len(me.inputs)
    /\ IF me.op = "CreateCustomer"
       THEN LET errors == (IF bad_phone THEN <<phone_error>> ELSE <<>>)
                          \o (IF ~SessionEmailUnique(s, input.email)
                              THEN <<email_error>> ELSE <<>>)
            IN sessions' = [sessions EXCEPT ![s] =
                  IF errors # <<>>
                  THEN Answered(me, [type |-> "CustomerResponse", success |-> FALSE,
                                     customer |-> None,
                                     message |-> <<"Customer creation failed">>,
                                     errors |-> Some(errors)])
                  ELSE [me EXCEPT !.pc = "full_clean"]]
       ELSE sessions' = [sessions EXCEPT ![s] =
               IF input.name = ""
               THEN RecordFailed(me, get_user_friendly_error("name", "", "required_field"))
               ELSE IF input.email = ""
               THEN RecordFailed(me, get_user_friendly_error("email", "", "required_field"))
               ELSE IF bad_phone THEN RecordFailed(me, phone_error)
               ELSE IF me.needs_rollback THEN RecordFailed(me, StorageErrorText)
               ELSE IF ~SessionEmailUnique(s, input.email) THEN RecordFailed(me, email_error)
               ELSE [me EXCEPT !.pc = "full_clean"]]
    /\ UNCHANGED <<customers, products, orders, orderItems, nextId, pc, call, locals, tx,
                   response, files>>

\* customer.full_clean(): its uniqueness query finds the email or not.
RaceFullClean(s) ==
    LET me == sessions[s]
        input == me.inputs[me.index + 1]
    IN
    /\ me.pc = "full_clean"
    /\ sessions' = [sessions EXCEPT ![s] =
          IF SessionEmailUnique(s, input.email)
          THEN [me EXCEPT !.pc = "save"]
          ELSE IF me.op = "CreateCustomer"
          THEN Answered(me, [type |-> "CustomerResponse", success |-> FALSE,
                             customer |-> None, message |-> <<"Validation failed">>,
                             errors |-> Some(FieldErrors(EmailExistsDict))])
          ELSE RecordFailed(me, Join(<<", ">>, FieldErrors(EmailExistsDict)))]
    /\ UNCHANGED <<customers, products, orders, orderItems, nextId, pc, call, locals, tx,
                   response, files>>

\* customer.save(): the insert.  It fails on an email that is committed, and
\* (a lock timeout; waiting is taking this step later) on one another session
\* has inserted and not committed;
\* CreateCustomer commits its row at once, the bulk loop keeps it in its
\* transaction.  A failed save marks the bulk call's transaction for rollback.
RaceSave(s) ==
    LET me == sessions[s]
        input == me.inputs[me.index + 1]
        customer == CustomerRow(nextId.customer, input)
        fails == UniqueViolation(input.email) \/ UncommittedElsewhere(s, input.email)
    IN
    /\ me.pc = "save"
    /\ IF fails
       THEN /\ sessions' = [sessions EXCEPT ![s] =
                  IF me.op = "CreateCustomer"
                  THEN Answered(me, CustomerSaveFailed(nextId.customer, input))
                  ELSE [RecordFailed(me, StorageErrorText) EXCEPT !.needs_rollback = TRUE]]
            /\ UNCHANGED <<customers, nextId>>
       ELSE /\ nextId' = [nextId EXCEPT !.customer = @ + 1]
            /\ IF me.op = "CreateCustomer"
               THEN /\ customers' = customers \cup {customer}
                    /\ sessions' = [sessions EXCEPT ![s] =
                          Answered(me, [type |-> "CustomerResponse", success |-> TRUE,
                                        customer |-> Some(customer),
                                        message |-> <<"Customer created successfully">>,
                                        errors |-> None])]
               ELSE /\ sessions' = [sessions EXCEPT ![s] =
                          [me EXCEPT !.pc = "check", !.index = @ + 1,
                                     !.rows = @ \cup {customer},
                                     !.created_customers = Append(@, customer)]]
                    /\ UNCHANGED customers
    /\ UNCHANGED <<products, orders, orderItems, pc, call, locals, tx, response, files>>

\* The bulk loop is over: the response is built and the atomic block left.
RaceBulkReturn(s) ==
    LET me == sessions[s]
        outcome == BulkOutcome(me.created_customers, me.errors)
    IN
    /\ me.op = "BulkCreateCustomers"
    /\ me.pc = "check"
    /\ me.index = Len(me.inputs)
    /\ customers' = IF AtomicCommits(me, FALSE) THEN customers \cup me.rows ELSE customers
    /\ sessions' = [sessions EXCEPT ![s] =
          Answered(me, [type |-> "BulkCustomerResponse",
                        success |-> outcome.success,
                        customers |-> me.created_customers,
                        errors |-> IF me.errors # <<>> THEN Some(me.errors) ELSE None,
                        message |-> outcome.message])]
    /\ UNCHANGED <<products, orders, orderItems, nextId, pc, call, locals, tx, response, files>>

\* A CreateCustomer call in session 1, a CreateCustomer or a BulkCreateCustomers
\* call in session 2, their steps interleaved.
NextRace ==
    \/ \E s \in Sessions, input \in RaceInputs : RaceBegin(s, "CreateCustomer", <<input>>)
    \/ \E inputs \in SeqsUpTo(RaceInputs, MaxInputs) : RaceBegin(2, "BulkCreateCustomers", inputs)
    \/ \E s \in Sessions : RaceCheck(s)
    \/ \E s \in Sessions : RaceFullClean(s)
    \/ \E s \in Sessions : RaceSave(s)
    \/ \E s \in Sessions : RaceBulkReturn(s)

SpecRace == Init /\ [][NextRace]_vars

\* ------------------------------------------------------------------ claims

Range(seq) == {seq[i] : i \in 1..Len(seq)}

\* The errors list of a response, empty when errors is None.
ErrorsOf(resp) == IF resp.errors = None THEN <<>> ELSE resp.errors[1]

EmailsOf(rows) == {c.email : c \in rows}

\* The elements of a set of integers in increasing order.
RECURSIVE Sorted(_)
Sorted(S) ==
    IF S = {} THEN <<>>
    ELSE LET m == CHOOSE x \in S : \A y \in S : x <= y
         IN <<m>> \o Sorted(S \ {m})

\* "Record <i>: " with the record's 1-based position i.
ClaimedPrefix(i) == <<"Record ", ToString(i), ": ">>

\* C1: no two persisted Customer rows share an email, after any sequence of
\* CreateCustomer and BulkCreateCustomers calls.
C1_UniqueEmails ==
    \A c1, c2 \in customers : c1.email = c2.email => c1 = c2

\* A bulk call whose second record repeated the email of its first: the first is
\* the only row, the second was rejected as a duplicate.
C1_Witness ==
    /\ response.type = "BulkCustomerResponse"
    /\ Len(response.customers) = 1
    /\ Cardinality(customers) = 1
    /\ response.errors =
          Some(<<ClaimedPrefix(2)
                 \o get_user_friendly_error("email", response.customers[1].email,
                                            "email_exists")>>)

\* What the claim counts as a record failing validation, record i of inputs, with
\* the emails persisted at the moment it is processed.
FailsValidation(input_data, persisted) ==
    \/ input_data.name = ""
    \/ input_data.email = ""
    \/ ~validate_phone_number(input_data.phone)
    \/ input_data.email \in persisted

\* The text of a record's error after its prefix is a model-level validation error.
IsModelError(text) ==
    \E fields \in SUBSET {"name", "email", "phone"} :
       \E message_dict \in full_clean(fields) :
          message_dict # <<>> /\ text = Join(<<", ">>, FieldErrors(message_dict))

\* The postcondition of a BulkCreateCustomers call on inputs that found the rows
\* before in the table, left the rows after, and returned resp.
BulkPost(inputs, before, after, resp) ==
    LET N == Len(inputs)
        errs == ErrorsOf(resp)
        K == Len(errs)
        failed == {i \in 1..N : \E j \in 1..K : SubSeq(errs[j], 1, 3) = ClaimedPrefix(i)}
        passed == Sorted((1..N) \ failed)
        failedSeq == Sorted(failed)
        persistedAt(i) == EmailsOf(before) \cup {inputs[k].email : k \in (1..(i - 1)) \ failed}
    IN
    /\ Len(resp.customers) = N - K
    /\ Cardinality(after \ before) = N - K
    /\ before \subseteq after
    /\ after \ before = Range(resp.customers)
    \* one error per failed record, in input order, each with its 1-based prefix
    /\ Len(failedSeq) = K
    /\ \A j \in 1..K : SubSeq(errs[j], 1, 3) = ClaimedPrefix(failedSeq[j])
    \* the customers returned are the other records, in input order
    /\ Len(passed) = N - K
    /\ \A j \in 1..(N - K) :
          /\ resp.customers[j].name = inputs[passed[j]].name
          /\ resp.customers[j].email = inputs[passed[j]].email
          /\ resp.customers[j].phone = inputs[passed[j]].phone
    \* a record fails exactly when it fails validation
    /\ \A i \in 1..N :
          /\ FailsValidation(inputs[i], persistedAt(i)) => i \in failed
          /\ i \in failed =>
                \/ FailsValidation(inputs[i], persistedAt(i))
                \/ \E j \in 1..K :
                      /\ SubSeq(errs[j], 1, 3) = ClaimedPrefix(i)
                      /\ IsModelError(SubSeq(errs[j], 4, Len(errs[j])))

WellFormedPhone(s) ==
    \/ /\ Len(s) \in 2..16
       /\ s[1] = "+"
       /\ \A i \in 2..Len(s) : IsDigit(s[i])
    \/ /\ Len(s) = 12
       /\ \A i \in 1..12 : IF i \in {4, 8} THEN s[i] = "-" ELSE IsDigit(s[i])

\* The postcondition the claim gives CreateCustomer(input).
CreateCustomerPost(input, before, after, resp) ==
    LET badPhone == Truthy(input.phone) /\ ~WellFormedPhone(input.phone[1])
        duplicate == input.email \in EmailsOf(before)
        errs == Range(ErrorsOf(resp))
    IN
    /\ get_user_friendly_error("phone", input.phone, "invalid_phone") \in errs <=> badPhone
    /\ get_user_friendly_error("email", input.email, "email_exists") \in errs <=> duplicate
    /\ (badPhone \/ duplicate) => (resp.success = FALSE /\ after = before)

\* C7: CreateCustomer lists the phone-format error iff the phone is present and not
\* of the format, and the email-exists error iff the email is already persisted;
\* if either applies the call fails and creates no row.
C7_AccumulatesErrors ==
    [][\A input \in CustomerInputs :
          CreateCustomer(input) =>
             CreateCustomerPost(input, customers, customers', response')]_vars

ItemsOf(o, items) == {i \in items : i.order = o.id}

RECURSIVE SumItemPrices(_)
SumItemPrices(items) ==
    IF items = {} THEN 0
    ELSE LET i == CHOOSE x \in items : TRUE
         IN i.price + SumItemPrices(items \ {i})

\* An order all of whose items are there: one for every product it references,
\* adding up to its total.
Complete(o, items) ==
    /\ o.products # {}
    /\ {i.product : i \in ItemsOf(o, items)} = o.products
    /\ SumItemPrices(ItemsOf(o, items)) = o.total_amount

\* C3: CreateOrder is all-or-nothing: whatever write fails, a reader never sees an
\* Order row without all of its OrderItems, and a failed call leaves no row.
C3_NoPartialOrder ==
    /\ [](\A o \in orders : Complete(o, orderItems))
    /\ [](\A i \in orderItems : \E o \in orders : i.order = o.id)
    /\ [][CreateOrderStorageError =>
             /\ response'.success = FALSE
             /\ orders' = orders
             /\ orderItems' = orderItems]_vars

\* A storage error that came after the order and one of its items were written:
\* their ids are used up and neither row is in the tables.
C3_Witness ==
    /\ call.op = "CreateOrder"
    /\ pc = "idle"
    /\ response.message = <<"Failed to create order">>
    /\ nextId.order = 2
    /\ nextId.item = 2
    /\ orders = {}
    /\ orderItems = {}

\* The first id of a list that no Product has, None when all resolve.
RECURSIVE FirstUnresolved(_, _)
FirstUnresolved(product_ids, rows) ==
    IF product_ids = <<>> THEN None
    ELSE IF \A p \in rows : ToString(p.id) # Head(product_ids)
    THEN Some(Head(product_ids))
    ELSE FirstUnresolved(Tail(product_ids), rows)

\* C4: a CreateOrder call for an existing customer with an id no Product has
\* creates no Order and no OrderItem, fails, and reports exactly the first such id.
C4_UnresolvedProduct ==
    [][(/\ call'.op = "CreateOrder"
        /\ CreateOrderBegin(call'.input)
        /\ \E c \in customers : ToString(c.id) = call'.input.customer_id
        /\ FirstUnresolved(call'.input.product_ids, products) # None)
       =>
       (/\ pc' = "idle"
        /\ tx' = NoTx
        /\ orders' = orders
        /\ orderItems' = orderItems
        /\ response'.success = FALSE
        /\ response'.errors =
              Some(<<(<<"Product with ID '",
                       FirstUnresolved(call'.input.product_ids, products)[1],
                       "' not found">>)>>))]_vars

\* A call that named two ids while there was no Product, answered with the one
\* that comes first in the list.
C4_Witness ==
    /\ call.op = "CreateOrder"
    /\ pc = "idle"
    /\ call.input.product_ids = <<"2", "1">>
    /\ response.errors = Some(<<(<<"Product with ID '", "2", "' not found">>)>>)
    /\ products = {}
    /\ orders = {}

PriceOf(id, rows) == (CHOOSE p \in rows : ToString(p.id) = id).price

RECURSIVE SumOfIds(_, _)
SumOfIds(product_ids, rows) ==
    IF product_ids = <<>> THEN 0
    ELSE PriceOf(Head(product_ids), rows) + SumOfIds(Tail(product_ids), rows)

\* What a successful CreateOrder leaves: an order whose total is the sum of the
\* prices of the ids of the input, one term per id, with one item per id, each of
\* quantity 1 and priced as its product.
OrderCreated ==
    LET input == call.input
        o == response'.order[1]
        items == ItemsOf(o, orderItems')
    IN
    /\ o \in orders'
    /\ o.total_amount = SumOfIds(input.product_ids, products)
    /\ o.total_amount = SumItemPrices(items)
    /\ Cardinality(items) = Len(input.product_ids)
    /\ \A i \in items :
          /\ i.quantity = 1
          /\ i.price = PriceOf(ToString(i.product), products)

\* Rows that stay in a table stay as they are.
Frozen(before, after) ==
    \A r \in before : \A r2 \in after : r2.id = r.id => r2 = r

\* C5: a successful CreateOrder stores the sum of the products' prices at call
\* time as total_amount, equal to the sum of its items' prices, each item with
\* quantity 1 and its product's price; no later step, a price edit included,
\* changes a stored OrderItem.price or an Order.total_amount.
C5_PriceSnapshot ==
    /\ [][(CreateOrderReturn /\ response'.success) => OrderCreated]_vars
    /\ [][Frozen(orders, orders') /\ Frozen(orderItems, orderItems')]_vars
    /\ [](\A o \in orders : o.total_amount = SumItemPrices(ItemsOf(o, orderItems)))

\* An order on the same product twice whose product's price was edited afterwards.
C5_Witness ==
    \E o \in orders : \E p \in products :
       /\ o.products = {p.id}
       /\ Cardinality(ItemsOf(o, orderItems)) = 2
       /\ o.total_amount = 10
       /\ p.price = 7

\* C6: CreateOrder with an empty product-id list, whatever the customer id,
\* creates nothing and fails with "At least one product is required"; so every
\* persisted Order references at least one product.
C6_EmptyProductList ==
    /\ [][(/\ call'.op = "CreateOrder"
            /\ CreateOrderBegin(call'.input)
            /\ call'.input.product_ids = <<>>)
           =>
           (/\ pc' = "idle"
            /\ tx' = NoTx
            /\ <<customers', products', orders', orderItems'>>
                  = <<customers, products, orders, orderItems>>
            /\ response'.success = FALSE
            /\ response'.errors = Some(<<(<<"At least one product is required">>)>>))]_vars
    /\ [](\A o \in orders \cup tx.orders :
             pc \in {"idle", "order_return"} => o.products # {})

\* An empty list sent for a customer that exists, refused.
C6_Witness ==
    /\ call.op = "CreateOrder"
    /\ pc = "idle"
    /\ call.input.product_ids = <<>>
    /\ \E c \in customers : ToString(c.id) = call.input.customer_id
    /\ response.errors = Some(<<(<<"At least one product is required">>)>>)

\* C8: CreateProduct is rejected before storage is touched iff price <= 0 or
\* stock < 0, with the price error listed iff price <= 0 and the stock error
\* iff stock < 0.
C8_ProductValidation ==
    [][\A input \in ProductInputs :
          CreateProduct(input) =>
             LET badPrice == input.price <= 0
                 badStock == input.stock # None /\ input.stock[1] < 0
                 rejected == /\ response'.type = "ProductResponse"
                             /\ response'.success = FALSE
                             /\ response'.message = <<"Product creation failed">>
                             /\ products' = products
                 errs == IF rejected THEN Range(ErrorsOf(response')) ELSE {}
             IN
             /\ rejected <=> (badPrice \/ badStock)
             /\ <<"Price must be a positive number">> \in errs <=> badPrice
             /\ <<"Stock cannot be negative">> \in errs <=> badStock]_vars

\* C9: every persisted Product has stock >= 0, and a Product has price > 0 when
\* it is created.
C9_StockAndPrice ==
    /\ [](\A p \in products : p.stock >= 0)
    /\ [][\A p \in products' :
             (\A q \in products : q.id # p.id) => p.price > 0]_vars

\* Products made by CreateProduct and by the seeder, one of them with no stock.
C9_Witness ==
    /\ \E p \in products : p.stock = 0 /\ p.name = "Widget"
    /\ call.op = "UpdateLowStockProducts"

\* The stock the claimed low-stock update gives each Product.
Restocked(rows) ==
    {IF p.stock < 10 THEN [p EXCEPT !.stock = @ + 10] ELSE p : p \in rows}

\* C10: UpdateLowStockProducts adds 10 to the stock of exactly the Products with
\* stock below 10 and leaves everything else as it is.
C10_Restock ==
    [][UpdateLowStockProducts =>
          /\ products' = Restocked(products)
          /\ <<customers', orders', orderItems'>> = <<customers, orders, orderItems>>]_vars

\* The low-stock update was the last thing run: by a request for the mutation or
\* by the scheduled job that is to invoke it.
LowStockJustRun == call.op \in {"UpdateLowStockProducts", "update_low_stock"}

\* C11: UpdateLowStockProducts is not idempotent: run again right after a run,
\* it adds 10 more to every Product still below 10, so the products differ from
\* what one run left.
C11_NotIdempotent ==
    [][(/\ LowStockJustRun
        /\ UpdateLowStockProducts \/ update_low_stock
        /\ \E p \in products : p.stock < 10)
       =>
       (/\ products' = Restocked(products)
        /\ products' # products)]_vars

\* The envelope a BulkCreateCustomers call on inputs owes, given the rows before
\* and after it: created counts the rows the call added, failed the other records.
BulkEnvelope(inputs, before, after, resp) ==
    LET created == Cardinality(after \ before)
        failed == Len(inputs) - created
    IN
    /\ resp.success = FALSE <=> created = 0
    /\ Len(resp.customers) = created
    /\ resp.message =
          IF created > 0 /\ failed = 0
          THEN <<"Successfully created ", ToString(created), " customers">>
          ELSE IF created > 0
          THEN <<"Successfully created ", ToString(created), " customers, ",
                 ToString(failed), " failed">>
          ELSE <<"No customers were created">>
    /\ resp.errors = None <=> failed = 0
    /\ Len(ErrorsOf(resp)) = failed

MutationOps == {"CreateCustomer", "BulkCreateCustomers", "CreateProduct", "CreateOrder"}

Envelopes == {"CustomerResponse", "BulkCustomerResponse", "ProductResponse", "OrderResponse"}

\* C13: every call of the four mutations ends with a response envelope, whatever
\* the input (a null stock included) and wherever storage fails (the uniqueness
\* lookup included): no exception leaves the mutation, and a call of
\* CreateCustomer, CreateProduct or CreateOrder in which storage failed answers
\* success=false with an error message.
C13_NoExceptionEscapes ==
    /\ []((pc = "idle" /\ call.op \in MutationOps) => response.type \in Envelopes)
    /\ [][(\/ \E input \in FaultCustomerInputs : CreateCustomerStorageError(input)
           \/ \E input \in ProductInputs : CreateProductStorageError(input)
           \/ \E input \in FaultOrderInputs : CreateOrderLookupError(input)
           \/ CreateOrderStorageError)
          => (/\ response'.type \in Envelopes
              /\ response'.success = FALSE
              /\ ErrorsOf(response') # <<>>)]_vars

Last(seq) == seq[Len(seq)]

\* C14: in a heartbeat run whose log file can be written, the "<timestamp> CRM is
\* alive" line is in the log before the liveness query is sent and stays there
\* whatever the query does, and the run then appends exactly one more line:
\* "GraphQL endpoint verified" when the query returned, "GraphQL check failed"
\* when it raised.
C14_AliveLineFirst ==
    /\ [][HeartbeatWriteAlive(TRUE) =>
             /\ files'.heartbeat = Append(files.heartbeat, <<Timestamp, " CRM is alive">>)
             /\ pc' = "heartbeat_query"]_vars
    /\ [](pc \in {"heartbeat_query", "heartbeat_result"} =>
             /\ files.heartbeat # <<>>
             /\ Last(files.heartbeat) = <<locals.timestamp, " CRM is alive">>)
    /\ [][HeartbeatWriteResult(TRUE, TRUE) =>
             /\ Len(files'.heartbeat) = Len(files.heartbeat) + 1
             /\ SubSeq(files'.heartbeat, 1, Len(files.heartbeat)) = files.heartbeat
             /\ SubSeq(Last(files'.heartbeat), 1, 2) =
                   IF locals.outcome = Some("ok")
                   THEN <<Timestamp, " GraphQL endpoint verified: ">>
                   ELSE <<Timestamp, " GraphQL check failed: ">>
             /\ response'.type = "returned"]_vars

\* A run whose query could not connect: the alive line, then the check-failed line.
C14_Witness ==
    /\ call.op = "log_crm_heartbeat"
    /\ pc = "idle"
    /\ response.type = "returned"
    /\ files.heartbeat = << <<Timestamp, " CRM is alive">>,
                            <<Timestamp, " GraphQL check failed: ", "ConnectionError">> >>

JobOps == {"log_crm_heartbeat", "send_order_reminders"}

\* The text the reminders job is to log for each kind of exception of the request.
ClaimedErrorText(exception) ==
    CASE exception = "ConnectionError" -> "Error: Could not connect to GraphQL endpoint at "
      [] exception = "Timeout" -> "Error: Request timeout"
      [] OTHER -> "Unexpected error: "

\* C15: log_crm_heartbeat and send_order_reminders return normally whatever
\* the request does and whichever log write fails (one inside an error handler
\* included), a failed log write of the heartbeat ending on the console; and a
\* connection error, a timeout and any other exception of the request are each
\* logged with a line of their own.
C15_JobsNeverPropagate ==
    /\ []((pc = "idle" /\ call.op \in JobOps) => response.type = "returned")
    /\ [][HeartbeatWriteAlive(FALSE) => files'.console # <<>>]_vars
    /\ [][(RemindersLog(0, TRUE) /\ locals.outcome[1] \in RequestExceptions) =>
             /\ Len(files'.reminders) = Len(files.reminders) + 1
             /\ Last(files'.reminders)[4] = ClaimedErrorText(locals.outcome[1])]_vars

\* The call of session s has answered that a customer with this email was created.
ReportsCreated(s, email) ==
    LET r == sessions[s].response IN
    \/ /\ r.type = "CustomerResponse"
       /\ r.success
       /\ r.customer[1].email = email
    \/ /\ r.type = "BulkCustomerResponse"
       /\ \E i \in 1..Len(r.customers) : r.customers[i].email = email

\* C16: two concurrent customer-creation calls (CreateCustomer with
\* CreateCustomer or with BulkCreateCustomers) carrying the same new email,
\* however their checks and saves interleave, leave at most one Customer row
\* with that email, and at most one of them reports the record as created.
C16_NoDuplicateUnderRace ==
    \A email \in Emails :
       /\ Cardinality({c \in customers : c.email = email}) <= 1
       /\ Cardinality({s \in Sessions : ReportsCreated(s, email)}) <= 1

\* Both calls passed their uniqueness checks before either saved: the first
\* created the customer, the second's save was refused.
C16_Witness ==
    /\ sessions[1].response.type = "CustomerResponse"
    /\ sessions[1].response.success
    /\ sessions[2].response.type = "CustomerResponse"
    /\ sessions[2].response.message = <<"Failed to create customer">>
    /\ sessions[1].inputs = sessions[2].inputs
    /\ Cardinality(customers) = 1

====
